---- MODULE Spec2Model ----
(***************************************************************************)
(* A model of titiler-cmr-compatibility: the classification of one         *)
(* collection (tiling.GranuleTilingInfo), the tile probe (test_tiling),    *)
(* the in-process pool executor (cli.process_collections_parallel) and the *)
(* S3 result store driven through Lithops (lithops_processing).            *)
(*                                                                         *)
(* Python values: None is the string "None" for string-valued fields; an   *)
(* optional list or tuple is a sequence of length 0 (None) or 1 (the       *)
(* value), so that truthiness is computed as Python computes it.           *)
(***************************************************************************)
EXTENDS Integers, Sequences, FiniteSets, TLC

None == "None"

\* Optional[list]: <<>> is None, <<l>> is the list l.
NoList == <<>>
SomeList(l) == <<l>>
\* Python truthiness of an Optional[list] / Optional[tuple].
TruthyList(o) == Len(o) = 1 /\ Len(o[1]) > 0
\* Python truthiness of an Optional[str].
TruthyStr(s) == s # None /\ s # ""

(***************************************************************************)
(* constants.py, known_variables.py, tiling.IncompatibilityReason          *)
(***************************************************************************)
HDF_FORMATS == {"HDF", "HDF5", "HDF-EOS5"}
HDF_EXTENSIONS == {"hdf", "hdf5", "h5"}
NETCDF_FORMATS == {"NetCDF", "netCDF-4", "netCDFnetCDF-4 classic"}
NETCDF_EXTENSIONS == {"nc", "nc4"}
COG_FORMATS == {"COG"}
COG_EXTENSIONS == {"cog", "tif", "tiff"}
ZARR_FORMATS == {"zarr"}
ZARR_EXTENSIONS == {"zarr"}
SUPPORTED_FORMATS == HDF_FORMATS \cup NETCDF_FORMATS \cup COG_FORMATS \cup ZARR_FORMATS
SUPPORTED_EXTENSIONS ==
    HDF_EXTENSIONS \cup NETCDF_EXTENSIONS \cup COG_EXTENSIONS \cup ZARR_EXTENSIONS

DEFAULT_TILE_X == 0
DEFAULT_TILE_Y == 0
DEFAULT_TILE_Z == 0

known_variables ==
    {"Tair", "SnowDepth", "Rainf", "Snowf_tavg", "wind",
     "aerosol_optical_thickness_ocean", "ColumnAmountNO2", "precip",
     "EVAP", "TS", "precipitation", "srad", "SO2", "O3", "xco2", "prec",
     "SnowDepth_tavg", "tmax", "SO2CMASS", "sma", "soil_moisture_c1", "tas",
     "RZSM", "GPP", "reflectance", "WINDSPD", "PSurf"}

UNSUPPORTED_FORMAT == "unsupported_format"
CANT_OPEN_FILE == "cant_open_file"
TILE_GENERATION_FAILED == "tile_generation_failed"
NO_GRANULE_FOUND == "no_granule_found"
FAILED_TO_EXTRACT == "failed_to_extract"
TIMEOUT == "timeout"
CANT_EXTRACT_VARIABLES == "cant_extract_variables"

IncompatibilityReason ==
    {UNSUPPORTED_FORMAT, CANT_OPEN_FILE, TILE_GENERATION_FAILED, NO_GRANULE_FOUND,
     FAILED_TO_EXTRACT, TIMEOUT, CANT_EXTRACT_VARIABLES}

(***************************************************************************)
(* The strings the model feeds to the classifier, and the string functions *)
(* of the code on them (str.lower, os.path.splitext, str.lstrip('.')).     *)
(***************************************************************************)
\* Declared formats a collection or a granule may carry (None: not declared).
DeclaredFormats == {None, "COG", "cog", "TIFF", "NetCDF", "netcdf-4", "nc", "HDF-EOS2"}

\* Data URLs a granule may link to.
DirectUrls == {"s3://p/g.tif", "s3://p/g.nc", "s3://p/g.dat", "s3://p/g"}
ExternalUrls == {"https://p/g.TIF", "https://p/g.h5", "https://p/g.HDF-EOS2"}

\* str.lower() on the strings above and on the supported sets.
Lower(s) ==
    CASE s = "HDF" -> "hdf"
      [] s = "HDF5" -> "hdf5"
      [] s = "HDF-EOS5" -> "hdf-eos5"
      [] s = "HDF-EOS2" -> "hdf-eos2"
      [] s = "NetCDF" -> "netcdf"
      [] s = "netCDF-4" -> "netcdf-4"
      [] s = "netCDFnetCDF-4 classic" -> "netcdfnetcdf-4 classic"
      [] s = "COG" -> "cog"
      [] s = "TIFF" -> "tiff"
      [] s = "TIF" -> "tif"
      [] OTHER -> s

\* os.path.splitext(url)[1]: the last dot-suffix of the URL's last path segment.
Splitext(url) ==
    CASE url = "s3://p/g.tif" -> ".tif"
      [] url = "s3://p/g.nc" -> ".nc"
      [] url = "s3://p/g.dat" -> ".dat"
      [] url = "s3://p/g" -> ""
      [] url = "https://p/g.TIF" -> ".TIF"
      [] url = "https://p/g.h5" -> ".h5"
      [] url = "https://p/g.HDF-EOS2" -> ".HDF-EOS2"

\* str.lstrip('.') on the suffixes above.
LStripDot(s) ==
    CASE s = ".tif" -> "tif"
      [] s = ".nc" -> "nc"
      [] s = ".dat" -> "dat"
      [] s = ".TIF" -> "TIF"
      [] s = ".h5" -> "h5"
      [] s = ".HDF-EOS2" -> "HDF-EOS2"
      [] OTHER -> s

(***************************************************************************)
(* validation.py                                                           *)
(***************************************************************************)
is_supported(value, check_formats, check_extensions) ==
    LET value_lower == Lower(value) IN
    \/ check_formats /\ value_lower \in {Lower(fmt) : fmt \in SUPPORTED_FORMATS}
    \/ check_extensions /\ value_lower \in {Lower(ext) : ext \in SUPPORTED_EXTENSIONS}

is_supported_format(file_format) == is_supported(file_format, TRUE, TRUE)

is_supported_extension(file_ext) == is_supported(file_ext, FALSE, TRUE)

(***************************************************************************)
(* tiling.GranuleTilingInfo                                                *)
(*                                                                         *)
(* granule_metadata is <<>> (None) or <<m>> with m the parts of the UMM    *)
(* record the code reads: [concept_id, links_raise, direct, external,      *)
(* format, temporal].  direct and external are the lists                   *)
(* DataGranule.data_links returns for access="direct" and for any other    *)
(* access; links_raise says that data_links raises.                        *)
(***************************************************************************)
\* The dataclass's constructor, before __post_init__ (the field defaults).
GranuleTilingInfo(collection_concept_id, granule_metadata, collection_file_format, access_type, error_message, incompatible_reason) ==
    [collection_concept_id |-> collection_concept_id,
     granule_metadata |-> granule_metadata,
     collection_file_format |-> collection_file_format,
     access_type |-> access_type,
     concept_id |-> None,
     data_url |-> None,
     temporal_extent |-> NoList,
     data_variables |-> NoList,
     backend |-> None,
     format |-> None,
     extension |-> None,
     tiles_url |-> <<>>,
     reader |-> None,
     reader_options |-> <<>>,
     variable |-> None,
     error_message |-> error_message,
     tiling_compatible |-> FALSE,
     incompatible_reason |-> incompatible_reason]

\* earthaccess DataGranule.data_links(access=...).
data_links(m, access) == IF access = "direct" THEN m.direct ELSE m.external

_extract_concept_id(g) == [g EXCEPT !.concept_id = g.granule_metadata[1].concept_id]

_extract_data_url(g) ==
    LET m == g.granule_metadata[1]
        first == data_links(m, g.access_type)
        second == IF g.access_type = "direct" THEN data_links(m, "external") ELSE <<>>
        url == IF m.links_raise THEN None
               ELSE IF Len(first) > 0 THEN first[1]
               ELSE IF Len(second) > 0 THEN second[1]
               ELSE None
    IN  IF m.links_raise
        THEN [g EXCEPT !.error_message = "Error extracting data URL",
                       !.incompatible_reason = FAILED_TO_EXTRACT]
        ELSE IF ~TruthyStr(url)
        THEN [g EXCEPT !.error_message = "Could not find data URL in granule metadata",
                       !.incompatible_reason = FAILED_TO_EXTRACT]
        ELSE [g EXCEPT !.data_url = url]

\* umm_helpers.parse_temporal always returns the pair (begin, end).
parse_temporal(m) == m.temporal

_extract_temporal_extent(g) ==
    [g EXCEPT !.temporal_extent = SomeList(parse_temporal(g.granule_metadata[1]))]

_extract_file_format_from_granule(g) ==
    LET fmt == g.granule_metadata[1].format IN IF TruthyStr(fmt) THEN fmt ELSE None

\* An extraction that tries the granule-level format first (mutant of
\* _extract_format_and_extension).
_extract_format_granule_first(g) ==
    LET own == _extract_file_format_from_granule(g)
        fmt == IF TruthyStr(own) THEN own ELSE g.collection_file_format
    IN  [g EXCEPT !.format = fmt,
                  !.extension = IF TruthyStr(g.data_url)
                                THEN LStripDot(Splitext(g.data_url))
                                ELSE g.extension]

_extract_format_and_extension(g) ==
    LET fmt == IF TruthyStr(g.collection_file_format)
               THEN g.collection_file_format
               ELSE _extract_file_format_from_granule(g)
    IN  [g EXCEPT !.format = fmt,
                  !.extension = IF TruthyStr(g.data_url)
                                THEN LStripDot(Splitext(g.data_url))
                                ELSE g.extension]

\* A _validate_format that never rejects a format (mutant of _validate_format_ok).
_validate_format_ok_unchecked(g) == TruthyStr(g.data_url)

\* A _validate_format that accepts a granule when its format or its extension
\* is supported (mutant of _validate_format_ok).
_validate_format_ok_or_extension(g) ==
    /\ TruthyStr(g.data_url)
    /\ \/ g.format # None /\ is_supported_format(g.format)
       \/ is_supported_extension(g.extension)

\* _validate_format's return value.
_validate_format_ok(g) ==
    /\ TruthyStr(g.data_url)
    /\ IF g.format # None THEN is_supported_format(g.format)
                          ELSE is_supported_extension(g.extension)

\* A _validate_format without the early return for a missing data URL (mutant
\* of _validate_format).
_validate_format_without_url_check(g) ==
    IF _validate_format_ok(g)
    THEN g
    ELSE [g EXCEPT !.error_message = "Extension is not supported",
                   !.incompatible_reason = UNSUPPORTED_FORMAT]

\* _validate_format's effect on the object.
_validate_format(g) ==
    IF ~TruthyStr(g.data_url) \/ _validate_format_ok(g)
    THEN g
    ELSE [g EXCEPT !.error_message = IF g.format # None
                                     THEN "Format is not supported"
                                     ELSE "Extension is not supported",
                   !.incompatible_reason = UNSUPPORTED_FORMAT]

\* Which opener _extract_data_variables_and_backend calls: "none", "rasterio", "xarray".
opener_called(g) ==
    LET file_format == IF TruthyStr(g.format) THEN g.format ELSE g.extension IN
    IF ~TruthyStr(g.data_url) THEN "none"
    ELSE IF file_format \in COG_FORMATS \/ file_format \in COG_EXTENSIONS THEN "rasterio"
    ELSE "xarray"

\* opened is what the opener does: [outcome, vars] with outcome "raise_open" (the
\* opener raises, the 120 s alarm included), "raise_close" (the with block's exit
\* raises, after the variables were read) or "ok"; vars is src.descriptions or
\* list(ds.data_vars.keys()).
_extract_data_variables_and_backend(g, opened) ==
    IF opener_called(g) = "none" THEN g
    ELSE IF opened.outcome = "raise_open"
    THEN [g EXCEPT !.error_message = "Error opening",
                   !.incompatible_reason = CANT_OPEN_FILE]
    ELSE IF opened.outcome = "raise_close"
    THEN [g EXCEPT !.data_variables = SomeList(opened.vars),
                   !.error_message = "Error opening",
                   !.incompatible_reason = CANT_OPEN_FILE]
    ELSE IF Len(opened.vars) = 0
    THEN [g EXCEPT !.data_variables = SomeList(opened.vars),
                   !.backend = opener_called(g),
                   !.error_message = "Can't extract variables",
                   !.incompatible_reason = CANT_EXTRACT_VARIABLES]
    ELSE [g EXCEPT !.data_variables = SomeList(opened.vars),
                   !.backend = opener_called(g)]

\* next((item for item in vars if item in known_variables), None)
RECURSIVE first_known(_)
first_known(vars) ==
    IF Len(vars) = 0 THEN None
    ELSE IF Head(vars) \in known_variables THEN Head(vars)
    ELSE first_known(Tail(vars))

\* A reader setup that always takes the first enumerated field (mutant of
\* _setup_reader).
_setup_reader_first_field(g) ==
    IF g.backend = None \/ ~TruthyList(g.data_variables) THEN g
    ELSE IF g.backend = "rasterio"
    THEN [g EXCEPT !.reader = "Reader", !.reader_options = <<[variable |-> None]>>]
    ELSE [g EXCEPT !.reader = "XarrayReader",
                   !.variable = g.data_variables[1][1],
                   !.reader_options = <<[variable |-> g.data_variables[1][1]]>>]

_setup_reader(g) ==
    IF g.backend = None \/ ~TruthyList(g.data_variables) THEN g
    ELSE IF g.backend = "rasterio"
    THEN [g EXCEPT !.reader = "Reader", !.reader_options = <<[variable |-> None]>>]
    ELSE IF g.backend = "xarray"
    THEN LET known == first_known(g.data_variables[1])
             variable == IF ~TruthyStr(known) /\ Len(g.data_variables[1]) > 0
                         THEN g.data_variables[1][1] ELSE known
         IN  [g EXCEPT !.reader = "XarrayReader",
                       !.variable = variable,
                       !.reader_options = <<[variable |-> variable]>>]
    ELSE g

\* The tiles URL as its parts.
TilesUrl(g, variable, datetime) ==
    [tile_z |-> DEFAULT_TILE_Z, tile_x |-> DEFAULT_TILE_X, tile_y |-> DEFAULT_TILE_Y,
     concept_id |-> g.collection_concept_id, backend |-> g.backend,
     variable |-> variable, datetime |-> datetime]

\* generate_tiles_url_for_granule: [raised, url] with url <<>> for None.  It is
\* called only with a backend and data variables.  '/'.join(temporal_extent)
\* raises TypeError when an element of the pair is None.
generate_tiles_url_for_granule(g) ==
    IF g.backend = "rasterio"
    THEN [raised |-> FALSE, url |-> <<TilesUrl(g, None, <<>>)>>]
    ELSE IF g.backend = "xarray"
    THEN LET variable == first_known(g.data_variables[1])
             te == g.temporal_extent
         IN  IF TruthyList(te)
             THEN IF te[1][1] = None \/ te[1][2] = None
                  THEN [raised |-> TRUE, url |-> <<>>]
                  ELSE [raised |-> FALSE,
                        url |-> <<TilesUrl(g, IF TruthyStr(variable) THEN variable
                                              ELSE g.data_variables[1][1], te[1])>>]
             ELSE [raised |-> FALSE, url |-> <<>>]
    ELSE [raised |-> FALSE, url |-> <<>>]

\* __post_init__, lines 93-100: the metadata extraction.
post_init_extract(g) ==
    _extract_format_and_extension(
        _extract_temporal_extent(_extract_data_url(_extract_concept_id(g))))

\* __post_init__, lines 112-114: [raised, g].
post_init_tiles_url(g) ==
    IF g.backend # None /\ TruthyList(g.data_variables)
    THEN LET r == generate_tiles_url_for_granule(g)
         IN  [raised |-> r.raised, g |-> [g EXCEPT !.tiles_url = r.url]]
    ELSE [raised |-> FALSE, g |-> g]

\* __post_init__ as a whole: [raised, g, opener] with opener the opener it called.
post_init(g0, opened) ==
    IF Len(g0.granule_metadata) = 0
    THEN [raised |-> FALSE, g |-> g0, opener |-> "none"]
    ELSE LET g1 == post_init_extract(g0)
             g2 == _validate_format(g1)
         IN  IF ~_validate_format_ok(g1)
             THEN [raised |-> FALSE, g |-> g2, opener |-> "none"]
             ELSE LET g3 == _setup_reader(_extract_data_variables_and_backend(g2, opened))
                      r == post_init_tiles_url(g3)
                  IN  [raised |-> r.raised, g |-> r.g, opener |-> opener_called(g2)]

\* What the tile call of test_tiling can do: return (None) or raise an
\* exception with a message.
TileOutcomes == {None, "HTTP 500", "no assets found"}

\* The arguments of the tile call: the default tile, <<tile_z, tile_x, tile_y>>.
shared_args == <<DEFAULT_TILE_Z, DEFAULT_TILE_X, DEFAULT_TILE_Y>>

\* A probe that leaves the flag set when the tile call raises (mutant of
\* test_tiling).
test_tiling_flag_kept(g, tile_error) ==
    IF tile_error # None
    THEN [g EXCEPT !.tiling_compatible = TRUE,
                   !.error_message = tile_error,
                   !.incompatible_reason = TILE_GENERATION_FAILED]
    ELSE [g EXCEPT !.tiling_compatible = TRUE,
                   !.incompatible_reason = None,
                   !.error_message = None]

\* A probe that reports the failure without the exception's message (mutant of
\* test_tiling).
test_tiling_without_detail(g, tile_error) ==
    IF tile_error # None
    THEN [g EXCEPT !.tiling_compatible = FALSE,
                   !.incompatible_reason = TILE_GENERATION_FAILED]
    ELSE [g EXCEPT !.tiling_compatible = TRUE,
                   !.incompatible_reason = None,
                   !.error_message = None]

\* test_tiling: one CMRBackend.tile call in a try; tile_error is None if the call
\* returns and else the message of the exception it raises (str(e)).
test_tiling(g, tile_error) ==
    IF tile_error # None
    THEN [g EXCEPT !.tiling_compatible = FALSE,
                   !.error_message = tile_error,
                   !.incompatible_reason = TILE_GENERATION_FAILED]
    ELSE [g EXCEPT !.tiling_compatible = TRUE,
                   !.incompatible_reason = None,
                   !.error_message = None]

to_report_dict(g) ==
    [collection_concept_id |-> g.collection_concept_id,
     concept_id |-> g.concept_id,
     data_url |-> g.data_url,
     backend |-> g.backend,
     format |-> g.format,
     extension |-> g.extension,
     tiling_compatible |-> g.tiling_compatible,
     incompatible_reason |-> g.incompatible_reason,
     error_message |-> g.error_message,
     tiles_url |-> g.tiles_url,
     variable |-> g.variable,
     data_variables |-> g.data_variables]

(***************************************************************************)
(* The bounds of the model and the catalog it runs against.                *)
(***************************************************************************)
\* Collections in the catalog.
NumCollections == 2
\* The largest granule count ("hits") a collection has.
MaxGranules == 2

AllConceptIds == <<"C1", "C2", "C3", "C4">>
\* The catalog's collections in its (usage score) order.
Catalog == SubSeq(AllConceptIds, 1, NumCollections)
CollectionIds == {Catalog[i] : i \in 1..Len(Catalog)}

AccessTypes == {"direct", "external"}

\* The granule metadata records of the catalog.
Temporals == {<<None, None>>, <<"t0", None>>, <<"t0", "t1">>}
GranuleFormats == {None, "NetCDF", "HDF-EOS2"}
LinkLists(urls) == {<<>>} \cup {<<u>> : u \in urls}
GranuleMetas ==
    {[concept_id |-> "G1", links_raise |-> FALSE, direct |-> d, external |-> e,
      format |-> f, temporal |-> t] :
        d \in LinkLists(DirectUrls), e \in LinkLists(ExternalUrls),
        f \in GranuleFormats, t \in Temporals}
    \cup
    {[concept_id |-> "G1", links_raise |-> TRUE, direct |-> <<>>, external |-> <<>>,
      format |-> f, temporal |-> t] : f \in GranuleFormats, t \in Temporals}

\* What the two openers return: src.descriptions (a tuple, None for an unnamed
\* band) and list(ds.data_vars.keys()).
RasterVars == {<<>>, <<None>>, <<"Red", "Green", "Blue">>}
ArrayVars == {<<>>, <<"lat_bnds", "Tair">>, <<"foo", "bar">>}
OpenerResults(opener) ==
    {[outcome |-> "raise_open", vars |-> <<>>]}
    \cup {[outcome |-> o, vars |-> v] :
            o \in {"raise_close", "ok"},
            v \in IF opener = "rasterio" THEN RasterVars ELSE ArrayVars}

(***************************************************************************)
(* api.fetch_random_granule_metadata                                       *)
(***************************************************************************)
CMR_PAGINATION_LIMIT == 1000000

Min(a, b) == IF a < b THEN a ELSE b

\* random.randint(0, min(total_num_granules, int(1e6))): both ends included.
random_offsets(total_num_granules) == 0..Min(total_num_granules, CMR_PAGINATION_LIMIT)

\* The answers of fetch_random_granule_metadata: [kind, hits, offset, granule] with kind
\* "raise" (a request failed), "none" or "granule"; hits is the granule count the
\* first request returned (-1: it failed; a second request is made, and can
\* fail, only for a count above 0); offset is the offset of the second request
\* (-1: none was made).  The catalog returns the member at an offset below the
\* count and no item at the count itself.
fetch_random_granule_metadata ==
    {[kind |-> "raise", hits |-> -1, offset |-> -1, granule |-> <<>>]}
    \cup UNION {
           {[kind |-> "raise", hits |-> h, offset |-> o, granule |-> <<>>] :
               o \in random_offsets(h)} : h \in 1..MaxGranules}
    \cup {[kind |-> "none", hits |-> 0, offset |-> -1, granule |-> <<>>]}
    \cup UNION {
           {IF o < h
            THEN [kind |-> "granule", hits |-> h, offset |-> o, granule |-> <<m>>]
            ELSE [kind |-> "none", hits |-> h, offset |-> o, granule |-> <<>>] :
               o \in random_offsets(h), m \in GranuleMetas} : h \in 1..MaxGranules}

(***************************************************************************)
(* metadata.extract_random_granule_info and the two units that call it, as *)
(* functions of the answers of the catalog, of the openers and of the tile *)
(* backend.  An answer is [kind, g]: kind "raise" (the exception reaches   *)
(* the caller), "none" (None is returned) or "ginfo" with g = <<object>>.  *)
(* answers are the answers of the catalog that are considered and openings *)
(* the results of the openers that are.                                    *)
(***************************************************************************)
AllOpenings == OpenerResults("rasterio") \cup OpenerResults("xarray")

extract_random_granule_info(coll, access, answers, openings) ==
    UNION {
      IF r.kind = "raise"
      THEN {[kind |-> "raise", g |-> <<>>], [kind |-> "none", g |-> <<>>]}
      ELSE IF r.kind = "none"
      THEN {[kind |-> "none", g |-> <<>>]}
      ELSE LET g0 == GranuleTilingInfo(coll.concept_id, r.granule, coll.file_format,
                                       access, None, None)
               g2 == _validate_format(post_init_extract(g0))
           IN  UNION {
                 LET c == post_init(g0, opened) IN
                 IF c.raised
                 THEN {[kind |-> "raise", g |-> <<>>], [kind |-> "none", g |-> <<>>]}
                 ELSE {[kind |-> "ginfo", g |-> <<c.g>>]} :
                    opened \in OpenerResults(opener_called(g2)) \cap openings}
      : r \in answers}

\* `if ginfo.tiles_url: ginfo.test_tiling(auth)`: the objects it can leave.
probed(g) ==
    IF Len(g.tiles_url) > 0
    THEN {test_tiling(g, tile_error) : tile_error \in {None, "HTTP 500"}}
    ELSE {g}

\* process_collection_to_s3, lines 137-165, for a collection the catalog returned:
\* [raised, status, reason, result_dict], with status and reason the two
\* segments of the result key.  The handler of lines 139-145 names
\* IncompatibilityReason.FAILED_TO_EXTRACT_URL, which the enumeration does not
\* have, so an exception of the extraction leaves the function.
lithops_assessments(coll, access, answers, openings) ==
    UNION {
      IF e.kind = "raise"
      THEN {[raised |-> TRUE, status |-> None, reason |-> None, result_dict |-> <<>>]}
      ELSE LET g == IF e.kind = "none"
                    THEN GranuleTilingInfo(coll.concept_id, <<>>, None, "direct",
                                           "No granule info returned", NO_GRANULE_FOUND)
                    ELSE e.g[1]
           IN  {[raised |-> FALSE,
                 status |-> IF p.tiling_compatible THEN "true" ELSE "false",
                 reason |-> IF p.incompatible_reason # None
                            THEN p.incompatible_reason ELSE "none",
                 result_dict |-> <<to_report_dict(p)>>] : p \in probed(g)}
      : e \in extract_random_granule_info(coll, access, answers, openings)}

(***************************************************************************)
(* The S3 bucket.  A key is the sequence of its "/"-separated segments; an *)
(* object is [Body, Metadata] with Body <<>> for b'' and <<dict>> for the  *)
(* JSON of a dict; a bucket is a function from its keys to their objects.  *)
(***************************************************************************)
\* The values of the `prefix` argument: the default and a two-segment one.
Prefixes == {<<"collections">>, <<"tiling", "collections">>}

EmptyBucket == [k \in {} |-> <<>>]

\* A put that marks an object it overwrites (mutant of put_object).
put_object_marking_overwrite(bucket, Key, Body, ContentType, Metadata) ==
    [k \in DOMAIN bucket \cup {Key} |->
        IF k = Key
        THEN [Body |-> Body, ContentType |-> ContentType,
              Metadata |-> IF Key \in DOMAIN bucket THEN "overwritten" ELSE Metadata]
        ELSE bucket[k]]

\* A delete that removes nothing and reports nothing (mutant of delete_object).
delete_object_ignored(bucket, Key) == bucket

put_object(bucket, Key, Body, ContentType, Metadata) ==
    [k \in DOMAIN bucket \cup {Key} |->
        IF k = Key
        THEN [Body |-> Body, ContentType |-> ContentType, Metadata |-> Metadata]
        ELSE bucket[k]]
delete_object(bucket, Key) == [k \in DOMAIN bucket \ {Key} |-> bucket[k]]

\* f"{prefix}/unprocessed/{concept_id}/.marker"
unprocessed_key(pfx, concept_id) == pfx \o <<"unprocessed", concept_id, ".marker">>
\* f"{prefix}/processed/{concept_id}/status={tiling_status}/reason={incompatibility_reason}/result.json"
processed_key(pfx, concept_id, status, reason) ==
    pfx \o <<"processed", concept_id, "status=" \o status, "reason=" \o reason,
             "result.json">>

\* key.startswith(f"{prefix}/x/")
has_prefix(key, p) == Len(key) > Len(p) /\ SubSeq(key, 1, Len(p)) = p
\* key.endswith('/result.json'), for a key of more than one segment
ends_with_result(key) == Len(key) > 1 /\ key[Len(key)] = "result.json"
\* f"/{a}/{b}/result.json" in key
contains_status_reason(key, a, b) ==
    \E i \in 2..(Len(key) - 2) :
        key[i] = a /\ key[i + 1] = b /\ key[i + 2] = "result.json"
\* f"/{a}/" in key
contains_segment(key, a) == \E i \in 2..(Len(key) - 1) : key[i] = a

\* The segments of the keys in the order of their bytes: list_objects_v2 returns
\* keys in the binary order of the key strings.
Segments ==
    <<".marker", "C1", "C2", "C3", "C4", "collections", "processed",
      "reason=cant_extract_variables", "reason=cant_open_file",
      "reason=failed_to_extract", "reason=no_granule_found", "reason=none",
      "reason=tile_generation_failed", "reason=timeout", "reason=unsupported_format",
      "result.json", "status=false", "status=true", "tiling", "unprocessed">>
SegRank(s) == CHOOSE i \in 1..Len(Segments) : Segments[i] = s
KeyLess(a, b) ==
    \/ Len(a) < Len(b) /\ SubSeq(b, 1, Len(a)) = a
    \/ \E i \in 1..Min(Len(a), Len(b)) :
          /\ SubSeq(a, 1, i - 1) = SubSeq(b, 1, i - 1)
          /\ SegRank(a[i]) < SegRank(b[i])

RECURSIVE SortKeys(_)
SortKeys(S) ==
    IF S = {} THEN <<>>
    ELSE LET m == CHOOSE k \in S : \A o \in S \ {k} : KeyLess(k, o)
         IN  <<m>> \o SortKeys(S \ {m})

\* paginator.paginate(Bucket, Prefix=p): the Contents of all pages, in order.
list_objects_v2(bucket, p) == SortKeys({k \in DOMAIN bucket : has_prefix(k, p)})

\* paginator.paginate(Bucket, Prefix=p, Delimiter='/'): the last segment of each
\* of the CommonPrefixes, in order.
common_prefixes(bucket, p) ==
    LET dirs == {<<k[Len(p) + 1]>> : k \in {x \in DOMAIN bucket :
                                             has_prefix(x, p) /\ Len(x) > Len(p) + 1}}
        sorted == SortKeys(dirs)
    IN  [i \in 1..Len(sorted) |-> sorted[i][1]]

\* matching_collections.append(concept_id), under `if concept_id not in ...` or not.
RECURSIVE collect_ids(_, _, _)
collect_ids(keys, acc, dedupe) ==
    IF keys = <<>> THEN acc
    ELSE LET key == Head(keys)
             concept_id == key[4]
         IN  IF Len(key) >= 4 /\ ~(dedupe /\ \E j \in 1..Len(acc) : acc[j] = concept_id)
             THEN collect_ids(Tail(keys), Append(acc, concept_id), dedupe)
             ELSE collect_ids(Tail(keys), acc, dedupe)

\* get_collections_by_status: tiling_compatible is <<>> (None) or <<a Boolean>>,
\* incompatibility_reason None or a reason's value.  The id is parts[3] of the
\* split key, whatever the number of segments of the prefix.
get_collections_by_status(bucket, pfx, tiling_compatible, incompatibility_reason) ==
    LET listing == list_objects_v2(bucket, pfx \o <<"processed">>)
        status_str == "status=" \o (IF tiling_compatible = <<TRUE>> THEN "true" ELSE "false")
        reason_str == "reason=" \o incompatibility_reason
        match(key) ==
            IF tiling_compatible # <<>>
            THEN IF incompatibility_reason # None
                 THEN contains_status_reason(key, status_str, reason_str)
                 ELSE contains_segment(key, status_str) /\ ends_with_result(key)
            ELSE IF incompatibility_reason # None
                 THEN \E i \in 2..(Len(key) - 1) :
                         key[i] = reason_str /\ key[i + 1] = "result.json"
                 ELSE ends_with_result(key)
        matching == SelectSeq(listing, match)
    IN  collect_ids(matching, <<>>, incompatibility_reason = None)

(***************************************************************************)
(* State.                                                                  *)
(*   One unit of work (SpecUnit): the classification and probe of one      *)
(*   collection, by cli._process_single_collection (mode "pool") or by the *)
(*   assessment part of lithops_processing.process_collection_to_s3 (mode  *)
(*   "lithops").                                                           *)
(***************************************************************************)
VARIABLES
    mode,         \* "pool" or "lithops": the caller of the unit
    pc,           \* the unit's position
    collection,   \* the collection record: [concept_id, file_format]
    access_type,  \* the access_type argument
    ginfo,        \* <<>> (no object yet, or None) or <<the GranuleTilingInfo>>
    hits,         \* granule count the catalog returned (-1: not returned)
    offset,       \* the offset of the second request (-1: no second request)
    calls,        \* calls made so far: [rasterio, xarray, tile], and the arguments
                  \* and the outcome of the tile call
    ret,          \* what the unit returned: [kind |-> "none" | "raise" | "record", ...]
    \* the store (SpecStore)
    prefix,       \* the `prefix` argument of the drivers: a sequence of segments
    s3,           \* the bucket: a function from keys to objects
    job,          \* the driver that runs: "idle", "process" or "reprocess"
    units,        \* the units the driver mapped over its ids
    everMarked,   \* history: the ids that were given a marker
    rewritten,    \* history: the ids whose marker was written over an existing one
    \* the pool (SpecPool)
    pool_pc,      \* "fetch", "collect" or "complete"
    batch_size,   \* the batch_size argument
    batch_num,    \* the number of the batch
    collections,  \* the concept ids of the collections of the batch
    workers,      \* the pool's calls, one for each collection of the batch
    idx,          \* the position of the collecting loop
    results,      \* the records collected for the batch
    timeouts,     \* the ids of the batch that timed out
    waited,       \* the time the current get() has waited, in ticks
    num_workers,  \* the num_workers argument: the processes of the pool
    total_collections, \* the total_collections argument: <<>> (None) or <<n>>
    total_hits,   \* the number of collections the catalog reports
    fetched,      \* history: the page numbers requested from the catalog
    totals        \* [processed, successful, timeouts] over the batches

unitVars == <<mode, pc, collection, access_type, ginfo, hits, offset, calls, ret>>

storeVars == <<prefix, s3, job, units, everMarked, rewritten>>
poolVars == <<pool_pc, batch_size, batch_num, collections, workers, idx, results, timeouts,
              waited, num_workers, total_collections, total_hits, fetched, totals>>
vars == <<unitVars, storeVars, poolVars>>

\* The values of the state of a part that does not run in a specification.
NoUnit ==
    /\ mode = "none" /\ pc = "idle" /\ collection = None /\ access_type = None
    /\ ginfo = <<>> /\ hits = -1 /\ offset = -1
    /\ calls = [rasterio |-> 0, xarray |-> 0, tile |-> 0, tile_args |-> <<>>, tile_error |-> ""]
    /\ ret = [kind |-> "none"]
NoStore ==
    /\ prefix = <<"collections">> /\ s3 = <<>> /\ job = "idle" /\ units = <<>>
    /\ everMarked = {} /\ rewritten = {}
NoPool ==
    /\ pool_pc = "idle" /\ batch_size = 1 /\ batch_num = 1 /\ collections = <<>>
    /\ workers = <<>> /\ idx = 0 /\ results = <<>> /\ timeouts = <<>> /\ waited = 0
    /\ total_collections = <<>> /\ total_hits = 0 /\ fetched = <<>> /\ num_workers = 1
    /\ totals = [processed |-> 0, successful |-> 0, timeouts |-> 0]


NoCalls == [rasterio |-> 0, xarray |-> 0, tile |-> 0, tile_args |-> <<>>, tile_error |-> ""]
NoRet == [kind |-> "none"]

\* cli._minimal_ginfo, and the same construction in process_collection_to_s3.
_minimal_ginfo(collection_id, error_message, incompatible_reason) ==
    GranuleTilingInfo(collection_id, <<>>, None, "direct", error_message,
                      incompatible_reason)

\* A probe that is run without looking at tiles_url (mutant of should_test).
should_test_always(g) == TRUE

\* The guard of the probe: `if ginfo.tiles_url:`.
should_test(g) == Len(g.tiles_url) > 0

\* The S3 key segments process_collection_to_s3 derives from the assessment.
tiling_status(g) == IF g.tiling_compatible THEN "true" ELSE "false"
reason_segment(g) == IF g.incompatible_reason # None THEN g.incompatible_reason ELSE "none"

InitUnit ==
    /\ mode \in {"pool", "lithops"}
    /\ pc = "start"
    /\ collection \in [concept_id : CollectionIds, file_format : DeclaredFormats]
    /\ access_type \in AccessTypes
    /\ ginfo = <<>>
    /\ hits = -1
    /\ offset = -1
    /\ calls = NoCalls
    /\ ret = NoRet
    /\ NoStore /\ NoPool

\* metadata.extract_random_granule_info, up to the granule: the request for a
\* random granule.  A failure inside is caught and None returned (lines 368-370),
\* or it reaches the caller, which handles it (cli.py 90-92, lithops 139-145).
extract_random_granule_info_fetch ==
    /\ pc = "start"
    /\ \E r \in fetch_random_granule_metadata :
          /\ hits' = r.hits
          /\ offset' = r.offset
          /\ \/ r.kind = "raise" /\ pc' \in {"no_granule", "raised"} /\ ginfo' = <<>>
             \/ r.kind = "none" /\ pc' = "no_granule" /\ ginfo' = <<>>
             \/ /\ r.kind = "granule"
                /\ pc' = "got_granule"
                /\ ginfo' = <<GranuleTilingInfo(collection.concept_id, r.granule,
                                                collection.file_format, access_type,
                                                None, None)>>
    /\ UNCHANGED <<mode, collection, access_type, calls, ret>>
    /\ UNCHANGED <<storeVars, poolVars>>

\* GranuleTilingInfo.__post_init__, lines 93-100.
post_init_extract_step ==
    /\ pc = "got_granule"
    /\ ginfo' = <<post_init_extract(ginfo[1])>>
    /\ pc' = "extracted"
    /\ UNCHANGED <<mode, collection, access_type, hits, offset, calls, ret>>
    /\ UNCHANGED <<storeVars, poolVars>>

\* __post_init__, lines 102-104: an unsupported format ends the initialization.
post_init_validate_step ==
    /\ pc = "extracted"
    /\ ginfo' = <<_validate_format(ginfo[1])>>
    /\ pc' = IF _validate_format_ok(ginfo[1]) THEN "validated" ELSE "constructed"
    /\ UNCHANGED <<mode, collection, access_type, hits, offset, calls, ret>>
    /\ UNCHANGED <<storeVars, poolVars>>

\* __post_init__, line 107: the file is opened with the opener of its format.
post_init_open_step ==
    /\ pc = "validated"
    /\ LET opener == opener_called(ginfo[1]) IN
       /\ \E opened \in OpenerResults(opener) :
             ginfo' = <<_extract_data_variables_and_backend(ginfo[1], opened)>>
       /\ calls' = IF opener = "rasterio" THEN [calls EXCEPT !.rasterio = @ + 1]
                   ELSE IF opener = "xarray" THEN [calls EXCEPT !.xarray = @ + 1]
                   ELSE calls
    /\ pc' = "opened"
    /\ UNCHANGED <<mode, collection, access_type, hits, offset, ret>>
    /\ UNCHANGED <<storeVars, poolVars>>

\* __post_init__, lines 110-114: the reader and the tiles URL.  An exception of
\* generate_tiles_url_for_granule leaves the constructor: no object is returned.
post_init_finish_step ==
    /\ pc = "opened"
    /\ LET r == post_init_tiles_url(_setup_reader(ginfo[1])) IN
       \/ ~r.raised /\ ginfo' = <<r.g>> /\ pc' = "constructed"
       \/ r.raised /\ ginfo' = <<>> /\ pc' \in {"no_granule", "raised"}
    /\ UNCHANGED <<mode, collection, access_type, hits, offset, calls, ret>>
    /\ UNCHANGED <<storeVars, poolVars>>

\* cli._process_single_collection, lines 90-92.
pool_extract_failed ==
    /\ mode = "pool" /\ pc = "raised"
    /\ ret' = [kind |-> "record",
               record |-> to_report_dict(_minimal_ginfo(collection.concept_id,
                                             "exception", FAILED_TO_EXTRACT))]
    /\ pc' = "done"
    /\ UNCHANGED <<mode, collection, access_type, ginfo, hits, offset, calls>>
    /\ UNCHANGED <<storeVars, poolVars>>

\* A missing granule reported as an extraction failure (mutant of pool_no_granule).
pool_no_granule_as_failure ==
    /\ mode = "pool" /\ pc = "no_granule"
    /\ ret' = [kind |-> "record",
               record |-> to_report_dict(_minimal_ginfo(collection.concept_id,
                                             "No granule info returned", FAILED_TO_EXTRACT))]
    /\ pc' = "done"
    /\ UNCHANGED <<mode, collection, access_type, ginfo, hits, offset, calls>>
    /\ UNCHANGED <<storeVars, poolVars>>

\* cli._process_single_collection, lines 94-97.
pool_no_granule ==
    /\ mode = "pool" /\ pc = "no_granule"
    /\ ret' = [kind |-> "record",
               record |-> to_report_dict(_minimal_ginfo(collection.concept_id,
                                             "No granule info returned", NO_GRANULE_FOUND))]
    /\ pc' = "done"
    /\ UNCHANGED <<mode, collection, access_type, ginfo, hits, offset, calls>>
    /\ UNCHANGED <<storeVars, poolVars>>

\* process_collection_to_s3, lines 139-145: the handler names
\* IncompatibilityReason.FAILED_TO_EXTRACT_URL, which the enumeration does not
\* have; the AttributeError leaves the function.
lithops_extract_failed ==
    /\ mode = "lithops" /\ pc = "raised"
    /\ ret' = [kind |-> "raise"]
    /\ pc' = "done"
    /\ UNCHANGED <<mode, collection, access_type, ginfo, hits, offset, calls>>
    /\ UNCHANGED <<storeVars, poolVars>>

\* process_collection_to_s3, lines 147-152.
lithops_no_granule ==
    /\ mode = "lithops" /\ pc = "no_granule"
    /\ ginfo' = <<_minimal_ginfo(collection.concept_id, "No granule info returned",
                                 NO_GRANULE_FOUND)>>
    /\ pc' = "constructed"
    /\ UNCHANGED <<mode, collection, access_type, hits, offset, calls, ret>>
    /\ UNCHANGED <<storeVars, poolVars>>

\* cli.py 103-104 and lithops_processing.py 155-156: the probe, run only with a
\* tiles URL.
probe ==
    /\ pc = "constructed"
    /\ IF should_test(ginfo[1])
       THEN \E tile_error \in TileOutcomes :
              /\ ginfo' = <<test_tiling(ginfo[1], tile_error)>>
              /\ calls' = [calls EXCEPT !.tile = @ + 1, !.tile_args = shared_args,
                                        !.tile_error = tile_error]
       ELSE UNCHANGED <<ginfo, calls>>
    /\ pc' = "probed"
    /\ UNCHANGED <<mode, collection, access_type, hits, offset, ret>>
    /\ UNCHANGED <<storeVars, poolVars>>

\* cli.py 109 (return ginfo.to_report_dict()) and lithops_processing.py 159-165
\* (the report and the key's status and reason).
report ==
    /\ pc = "probed"
    /\ ret' = [kind |-> "record", record |-> to_report_dict(ginfo[1])]
    /\ pc' = "done"
    /\ UNCHANGED <<mode, collection, access_type, ginfo, hits, offset, calls>>
    /\ UNCHANGED <<storeVars, poolVars>>

NextUnit ==
    \/ extract_random_granule_info_fetch
    \/ post_init_extract_step
    \/ post_init_validate_step
    \/ post_init_open_step
    \/ post_init_finish_step
    \/ pool_extract_failed
    \/ pool_no_granule
    \/ lithops_extract_failed
    \/ lithops_no_granule
    \/ probe
    \/ report

SpecUnit == InitUnit /\ [][NextUnit]_vars

(***************************************************************************)
(* The distributed executor over the S3 store (SpecStore): the setup pages *)
(* (write_collection_id_to_s3), one driver at a time (process_all_         *)
(* collections or reprocess_collections_by_reason) and the units it maps   *)
(* over its ids.  A unit is [concept_id, pc, outcome, ret, warned]: pc is  *)
(* "cleanup", "assess", "put", "delete" or "done"; outcome is <<>> or the  *)
(* <<assessment>> it holds; ret is "none", "completed", "failed" or        *)
(* "raise"; warned says that the deletion of the marker failed.            *)
(***************************************************************************)
\* The object of a pending marker: Body=b'', Metadata={'status': 'pending'}.
marker_object == [Body |-> <<>>, ContentType |-> None, Metadata |-> "pending"]

\* The fields of the result that the store and its readers tell records by.
result_body(d) ==
    [collection_concept_id |-> d.collection_concept_id,
     tiling_compatible |-> d.tiling_compatible,
     incompatible_reason |-> d.incompatible_reason]

\* The environment of the units of the store: a collection declares COG and has
\* one granule, with a direct link to a .tif, and the file opens with named
\* bands; the requests to the catalog fail or not and the tile backend too.
StoreAnswers ==
    {r \in fetch_random_granule_metadata :
        /\ r.kind # "none"
        /\ r.hits <= 1
        /\ r.kind = "granule" =>
              /\ ~r.granule[1].links_raise
              /\ r.granule[1].direct = <<"s3://p/g.tif">>
              /\ r.granule[1].external = <<>>
              /\ r.granule[1].format = None
              /\ r.granule[1].temporal = <<"t0", "t1">>}
StoreOpenings == {[outcome |-> "ok", vars |-> <<"Red", "Green", "Blue">>]}

\* The assessments of each collection of the catalog in that environment, with
\* the result reduced to result_body.
lithops_outcomes ==
    [id \in CollectionIds |->
        {[raised |-> a.raised, status |-> a.status, reason |-> a.reason,
          body |-> IF a.raised THEN <<>> ELSE <<result_body(a.result_dict[1])>>] :
            a \in lithops_assessments([concept_id |-> id, file_format |-> "COG"],
                                      "direct", StoreAnswers, StoreOpenings)}]

\* The values of the incompatibility_reason argument of the reprocess driver.
ReasonArgs == {None} \cup IncompatibilityReason

new_unit(concept_id, start) ==
    [concept_id |-> concept_id, pc |-> start, outcome |-> <<>>, ret |-> "none",
     warned |-> FALSE]

\* api.fetch_cmr_collections(page_size, page_num) on a catalog of `total`
\* collections: the items of the page, a full page if the catalog has as many.
fetch_cmr_collections(total, page_size, page_num) ==
    SubSeq(Catalog, (page_num - 1) * page_size + 1, Min(page_num * page_size, total))

\* fetch_cmr_collections(page_size, page_num): the items of one page.
page_items(page_size, page_num) == fetch_cmr_collections(Len(Catalog), page_size, page_num)

\* create_collection_directories, line 227.
num_pages(total_to_process, page_size) == (total_to_process + page_size - 1) \div page_size

\* write_collection_id_to_s3, lines 62-80: the loop over the collections of the
\* page; ok[i] says that the i-th put_object succeeds.  [bucket, created_ids].
RECURSIVE write_markers(_, _, _, _, _)
write_markers(bucket, pfx, items, ok, created) ==
    IF items = <<>> THEN [bucket |-> bucket, created_ids |-> created]
    ELSE IF Head(ok)
    THEN write_markers(put_object(bucket, unprocessed_key(pfx, Head(items)), <<>>, None, "pending"),
                       pfx, Tail(items), Tail(ok), Append(created, Head(items)))
    ELSE write_markers(bucket, pfx, Tail(items), Tail(ok), created)

Range(s) == {s[i] : i \in 1..Len(s)}

InitStore ==
    /\ prefix \in Prefixes
    /\ s3 = EmptyBucket
    /\ job = "idle"
    /\ units = <<>>
    /\ everMarked = {}
    /\ rewritten = {}
    /\ NoUnit /\ NoPool

\* write_collection_id_to_s3 for one page: the fetch of the page can fail (the
\* function returns []), and each put_object can fail (the id is skipped).
write_collection_id_to_s3 ==
    /\ \E page_size \in 1..Len(Catalog) :
         \E page_num \in 1..num_pages(Len(Catalog), page_size) :
           \/ UNCHANGED <<s3, everMarked, rewritten>>
           \/ LET items == page_items(page_size, page_num) IN
              \E ok \in [1..Len(items) -> BOOLEAN] :
                LET w == write_markers(s3, prefix, items, ok, <<>>) IN
                /\ s3' = w.bucket
                /\ everMarked' = everMarked \cup Range(w.created_ids)
                /\ rewritten' = rewritten \cup
                       {id \in Range(w.created_ids) :
                           unprocessed_key(prefix, id) \in DOMAIN s3}
    /\ UNCHANGED <<prefix, job, units>>
    /\ UNCHANGED <<unitVars, poolVars>>

\* process_all_collections, lines 268-316: the ids are the directories under
\* unprocessed/; with none it returns [], else it maps the unit over them.
process_all_collections ==
    /\ job = "idle"
    /\ LET collection_ids == common_prefixes(s3, prefix \o <<"unprocessed">>) IN
       IF collection_ids = <<>>
       THEN UNCHANGED <<job, units>>
       ELSE /\ job' = "process"
            /\ units' = [i \in 1..Len(collection_ids) |->
                            new_unit(collection_ids[i], "assess")]
    /\ UNCHANGED <<prefix, s3, everMarked, rewritten>>
    /\ UNCHANGED <<unitVars, poolVars>>

\* reprocess_collections_by_reason, lines 488-566: the ids are those of the
\* results with status false and the given reason; with none it returns [],
\* else it maps reprocess_and_cleanup over them.
reprocess_collections_by_reason ==
    /\ job = "idle"
    /\ \E incompatibility_reason \in ReasonArgs :
         LET collection_ids ==
                 get_collections_by_status(s3, prefix, <<FALSE>>, incompatibility_reason)
         IN  IF collection_ids = <<>>
             THEN UNCHANGED <<job, units>>
             ELSE /\ job' = "reprocess"
                  /\ units' = [i \in 1..Len(collection_ids) |->
                                  new_unit(collection_ids[i], "cleanup")]
    /\ UNCHANGED <<prefix, s3, everMarked, rewritten>>
    /\ UNCHANGED <<unitVars, poolVars>>

\* The keys the loop of reprocess_and_cleanup deletes: the results at or under
\* processed/<id>/ in listing order.
old_results(bucket, pfx, concept_id) ==
    SelectSeq(list_objects_v2(bucket, pfx \o <<"processed", concept_id>>), ends_with_result)

RECURSIVE delete_all(_, _)
delete_all(bucket, keys) ==
    IF keys = <<>> THEN bucket
    ELSE delete_all(delete_object(bucket, Head(keys)), Tail(keys))

\* reprocess_and_cleanup, lines 521-543: each old result.json is deleted (the
\* deletes of its parent "directories" name no object); an exception of the
\* listing or of a delete_object ends the loop with a warning.
reprocess_and_cleanup ==
    /\ \E i \in 1..Len(units) :
         /\ units[i].pc = "cleanup"
         /\ LET keys == old_results(s3, prefix, units[i].concept_id) IN
            \E n \in 0..Len(keys) : s3' = delete_all(s3, SubSeq(keys, 1, n))
         /\ units' = [units EXCEPT ![i].pc = "assess"]
    /\ UNCHANGED <<prefix, job, everMarked, rewritten>>
    /\ UNCHANGED <<unitVars, poolVars>>

\* process_collection_to_s3, lines 105-165: the collection is fetched (not
\* found, or an error: 'failed') and assessed.
process_collection_to_s3_assess ==
    /\ \E i \in 1..Len(units) :
         /\ units[i].pc = "assess"
         /\ \/ units' = [units EXCEPT ![i].pc = "done", ![i].ret = "failed"]
            \/ /\ units[i].concept_id \in CollectionIds
               /\ \E a \in lithops_outcomes[units[i].concept_id] :
                    IF a.raised
                    THEN units' = [units EXCEPT ![i].pc = "done", ![i].ret = "raise"]
                    ELSE units' = [units EXCEPT ![i].pc = "put", ![i].outcome = <<a>>]
    /\ UNCHANGED <<prefix, s3, job, everMarked, rewritten>>
    /\ UNCHANGED <<unitVars, poolVars>>

\* The key of lines 161-165.
result_key(u) ==
    processed_key(prefix, u.concept_id, u.outcome[1].status, u.outcome[1].reason)

\* process_collection_to_s3, lines 167-175 and 190-197: the result is written;
\* an exception of put_object returns 'failed'.
process_collection_to_s3_put ==
    /\ \E i \in 1..Len(units) :
         /\ units[i].pc = "put"
         /\ \/ /\ s3' = put_object(s3, result_key(units[i]), units[i].outcome[1].body,
                                   "application/json", None)
               /\ units' = [units EXCEPT ![i].pc = "delete"]
            \/ /\ units' = [units EXCEPT ![i].pc = "done", ![i].ret = "failed",
                                         ![i].outcome = <<>>]
               /\ UNCHANGED s3
    /\ UNCHANGED <<prefix, job, everMarked, rewritten>>
    /\ UNCHANGED <<unitVars, poolVars>>

\* A failure of the delete that fails the unit (mutant of delete_marker_failed).
delete_marker_failed_fails_unit(u) == [u EXCEPT !.pc = "done", !.ret = "failed", !.warned = TRUE]

\* Lines 181-189: the exception of delete_object is logged as a warning and
\* the function goes on to return 'completed'.
delete_marker_failed(u) == [u EXCEPT !.pc = "done", !.ret = "completed", !.warned = TRUE]

\* process_collection_to_s3, lines 177-189: the marker is deleted; an exception
\* of delete_object is logged, and 'completed' is returned either way.
process_collection_to_s3_delete ==
    /\ \E i \in 1..Len(units) :
         /\ units[i].pc = "delete"
         /\ \/ /\ s3' = delete_object(s3, unprocessed_key(prefix, units[i].concept_id))
               /\ units' = [units EXCEPT ![i].pc = "done", ![i].ret = "completed"]
            \/ /\ UNCHANGED s3
               /\ units' = [units EXCEPT ![i] = delete_marker_failed(units[i])]
    /\ UNCHANGED <<prefix, job, everMarked, rewritten>>
    /\ UNCHANGED <<unitVars, poolVars>>

\* The throw_except argument of get_result: False in process_all_collections
\* (line 314), the default True in reprocess_collections_by_reason (line 564).
throw_except(driver) == driver = "reprocess"

\* What fexec.get_result(futures, throw_except) gives the driver for units us:
\* it raises the exception of a unit if throw_except, and else has no result
\* (<<>>) for a unit that raised.
get_result_value(us, throws) ==
    IF throws /\ \E i \in 1..Len(us) : us[i].ret = "raise"
    THEN [raised |-> TRUE, results |-> <<>>]
    ELSE [raised |-> FALSE,
          results |-> [i \in 1..Len(us) |->
                          IF us[i].ret = "raise" THEN <<>>
                          ELSE <<[collection_concept_id |-> us[i].concept_id,
                                  status |-> us[i].ret]>>]]

\* fexec.get_result(futures): the driver returns when every unit has ended.
get_result ==
    /\ job # "idle"
    /\ \A i \in 1..Len(units) : units[i].pc = "done"
    /\ job' = "idle"
    /\ units' = <<>>
    /\ UNCHANGED <<prefix, s3, everMarked, rewritten>>
    /\ UNCHANGED <<unitVars, poolVars>>

NextStore ==
    \/ write_collection_id_to_s3
    \/ process_all_collections
    \/ reprocess_collections_by_reason
    \/ reprocess_and_cleanup
    \/ process_collection_to_s3_assess
    \/ process_collection_to_s3_put
    \/ process_collection_to_s3_delete
    \/ get_result

SpecStore == InitStore /\ [][NextStore]_vars

(***************************************************************************)
(* The pool executor (SpecPool): cli.process_collections_parallel.  Each   *)
(* batch is one page of the catalog; every collection of the batch is      *)
(* submitted to the pool (apply_async) and the results are collected in    *)
(* submission order with a timeout each.  A worker is [state, record]:     *)
(* "queued" (submitted, waiting for a process of the pool), "running",     *)
(* "returned" with record = <<the report>>, or "raised" (the call, or the  *)
(* transfer of its result, failed), with the time it has run in ticks.     *)
(* Time passes while the collecting loop is blocked in get().              *)
(***************************************************************************)
\* cli._process_single_collection as a function of the collection: its records.
_process_single_collection(coll, access, answers, openings) ==
    UNION {
      IF e.kind = "raise"
      THEN {to_report_dict(_minimal_ginfo(coll.concept_id, "exception", FAILED_TO_EXTRACT))}
      ELSE IF e.kind = "none"
      THEN {to_report_dict(_minimal_ginfo(coll.concept_id, "No granule info returned",
                                          NO_GRANULE_FOUND))}
      ELSE {to_report_dict(p) : p \in probed(e.g[1])}
      : e \in extract_random_granule_info(coll, access, answers, openings)}

\* The environment of the workers of the pool: a collection declares COG or
\* HDF-EOS2 and has no granule or one with a direct link to a .tif or no link;
\* the requests, the openers and the tile backend answer in every way.
PoolFormats == {"COG", "HDF-EOS2"}
PoolAnswers ==
    {r \in fetch_random_granule_metadata :
        /\ r.hits <= 1
        /\ r.kind = "granule" =>
              /\ ~r.granule[1].links_raise
              /\ r.granule[1].direct \in {<<>>, <<"s3://p/g.tif">>}
              /\ r.granule[1].external = <<>>
              /\ r.granule[1].format = None
              /\ r.granule[1].temporal = <<"t0", "t1">>}

\* The records a worker can return for each collection of the catalog.
pool_records ==
    [id \in CollectionIds |->
        UNION {_process_single_collection([concept_id |-> id, file_format |-> f],
                                          "direct", PoolAnswers, AllOpenings) :
                  f \in PoolFormats}]

\* Line 185 (and lithops_processing.py 222): min(total_collections, total_hits)
\* if total_collections is truthy (not None, not 0), else total_hits.
total_to_process_of(cap, total) ==
    IF cap # <<>> /\ cap[1] # 0 THEN Min(cap[1], total) ELSE total
total_to_process == total_to_process_of(total_collections, total_hits)

\* The quotient rounded down (mutant of ceil_div).
ceil_div_floor(a, b) == a \div b

\* math.ceil(a / b) for a >= 0 and b >= 1.
ceil_div(a, b) == IF a % b = 0 THEN a \div b ELSE a \div b + 1

\* Line 194: math.ceil(total_to_process / batch_size)
num_batches == ceil_div(total_to_process, batch_size)

\* A batch that ends without stopping its workers (mutant of terminate).
terminate_skipped(ws) == ws

\* pool.terminate() and pool.join() in the finally of the batch: no worker of
\* the pool is left.
terminate(ws) == <<>>

\* Lines 239-240: the result of the worker is appended.
on_result(rs, result) == Append(rs, result)

\* Lines 241-245: PoolTimeoutError.
on_timeout(rs, collection_id) ==
    Append(rs, to_report_dict(_minimal_ginfo(collection_id, "timed out", TIMEOUT)))

\* An exception of get() that leaves no record (mutant of on_exception).
on_exception_dropped(rs, collection_id) == rs

\* Lines 246-249: any other exception of get(): a minimal record with no reason.
on_exception(rs, collection_id) ==
    Append(rs, to_report_dict(_minimal_ginfo(collection_id, "error getting result", None)))

\* The timeout_per_collection argument, in ticks.
timeout_per_collection == 1

\* The time a worker has run, counted up to one tick past the timeout.
run_on(ran) == Min(ran + 1, timeout_per_collection + 1)

\* Pool(processes=num_workers): the calls queued by apply_async are taken in
\* submission order by the processes that are free; a process runs one call
\* at a time and is free again only when its call has ended.
schedule(ws, n) ==
    LET busy == Cardinality({j \in 1..Len(ws) : ws[j].state = "running"})
        rank(j) == Cardinality({k \in 1..j : ws[k].state = "queued"})
    IN  [j \in 1..Len(ws) |->
            IF ws[j].state = "queued" /\ rank(j) <= n - busy
            THEN [ws[j] EXCEPT !.state = "running"]
            ELSE ws[j]]

InitPool ==
    /\ pool_pc = "fetch"
    /\ num_workers \in 1..Len(Catalog)
    /\ batch_size \in 1..Len(Catalog)
    /\ batch_num = 1
    /\ collections = <<>>
    /\ workers = <<>>
    /\ idx = 0
    /\ results = <<>>
    /\ timeouts = <<>>
    /\ waited = 0
    /\ total_collections \in {<<>>} \cup {<<n>> : n \in 0..Len(Catalog)}
    /\ total_hits \in 0..Len(Catalog)
    /\ fetched = <<>>
    /\ totals = [processed |-> 0, successful |-> 0, timeouts |-> 0]
    /\ NoUnit /\ NoStore

\* Lines 204-234: the batch is fetched (an error, or an empty page, skips the
\* batch) and each of its collections is submitted to the pool.
fetch_batch ==
    /\ pool_pc = "fetch"
    /\ batch_num <= num_batches
    /\ fetched' = Append(fetched, batch_num)
    /\ \/ /\ batch_num' = batch_num + 1
          /\ UNCHANGED <<pool_pc, collections, workers, idx, results, timeouts, waited>>
       \/ /\ fetch_cmr_collections(total_hits, batch_size, batch_num) = <<>>
          /\ batch_num' = batch_num + 1
          /\ UNCHANGED <<pool_pc, collections, workers, idx, results, timeouts, waited>>
       \/ /\ collections' = fetch_cmr_collections(total_hits, batch_size, batch_num)
          /\ collections' # <<>>
          /\ workers' = schedule(workers \o [j \in 1..Len(collections') |->
                                   [state |-> "queued", record |-> <<>>, ran |-> 0]],
                                 num_workers)
          /\ idx' = 1
          /\ results' = <<>>
          /\ timeouts' = <<>>
          /\ waited' = 0
          /\ pool_pc' = "collect"
          /\ UNCHANGED batch_num
    /\ UNCHANGED <<batch_size, num_workers, total_collections, total_hits, totals>>
    /\ UNCHANGED <<unitVars, storeVars>>

\* A worker ends its call of _process_single_collection.
worker_ends ==
    /\ \E j \in 1..Len(workers) :
         /\ workers[j].state = "running"
         /\ \/ \E r \in pool_records[collections[j]] :
                 workers' = schedule([workers EXCEPT ![j].state = "returned",
                                                     ![j].record = <<r>>], num_workers)
            \/ workers' = schedule([workers EXCEPT ![j].state = "raised"], num_workers)
    /\ UNCHANGED <<pool_pc, batch_size, batch_num, collections, idx, results, timeouts,
                   waited, num_workers, total_collections, total_hits, fetched, totals>>
    /\ UNCHANGED <<unitVars, storeVars>>

\* Line 239: get(timeout=timeout_per_collection) blocks while the worker runs,
\* for timeout_per_collection at most from the moment it is called; the workers
\* that run go on running meanwhile.
get_waits ==
    /\ pool_pc = "collect" /\ idx <= Len(collections)
    /\ workers[idx].state \in {"queued", "running"}
    /\ waited < timeout_per_collection
    /\ waited' = waited + 1
    /\ workers' = [j \in 1..Len(workers) |->
                      IF workers[j].state = "running"
                      THEN [workers[j] EXCEPT !.ran = run_on(workers[j].ran)]
                      ELSE workers[j]]
    /\ UNCHANGED <<pool_pc, batch_size, batch_num, collections, idx, results, timeouts,
                   num_workers, total_collections, total_hits, fetched, totals>>
    /\ UNCHANGED <<unitVars, storeVars>>

\* Lines 236-240: get() returns the result of the worker.
collect_result ==
    /\ pool_pc = "collect" /\ idx <= Len(collections)
    /\ workers[idx].state = "returned"
    /\ results' = on_result(results, workers[idx].record[1])
    /\ idx' = idx + 1
    /\ waited' = 0
    /\ UNCHANGED <<pool_pc, batch_size, batch_num, collections, workers, timeouts,
                   num_workers, total_collections, total_hits, fetched, totals>>
    /\ UNCHANGED <<unitVars, storeVars>>

\* Line 239: get(timeout=timeout_per_collection) raises TimeoutError once the
\* wait has lasted timeout_per_collection.  A get() without a timeout would
\* never raise it.
get_without_timeout(w) == FALSE
get_times_out(w) == w >= timeout_per_collection

\* Lines 241-245: the call has not ended within the timeout, whether it runs
\* or still waits for a process.
collect_timeout ==
    /\ pool_pc = "collect" /\ idx <= Len(collections)
    /\ workers[idx].state \in {"queued", "running"}
    /\ get_times_out(waited)
    /\ results' = on_timeout(results, collections[idx])
    /\ timeouts' = Append(timeouts, collections[idx])
    /\ idx' = idx + 1
    /\ waited' = 0
    /\ UNCHANGED <<pool_pc, batch_size, batch_num, collections, workers,
                   num_workers, total_collections, total_hits, fetched, totals>>
    /\ UNCHANGED <<unitVars, storeVars>>

\* Lines 246-249: get() raises what the worker raised.
collect_exception ==
    /\ pool_pc = "collect" /\ idx <= Len(collections)
    /\ workers[idx].state = "raised"
    /\ results' = on_exception(results, collections[idx])
    /\ idx' = idx + 1
    /\ waited' = 0
    /\ UNCHANGED <<pool_pc, batch_size, batch_num, collections, workers, timeouts,
                   num_workers, total_collections, total_hits, fetched, totals>>
    /\ UNCHANGED <<unitVars, storeVars>>

\* Lines 250-279: the pool is terminated, the totals are updated and the loop
\* goes on to the next batch, or ends with the last collection.
end_batch ==
    /\ pool_pc = "collect" /\ idx > Len(collections)
    /\ workers' = terminate(workers)
    /\ totals' = [processed |-> totals.processed + Len(collections),
                  successful |-> totals.successful + Len(results),
                  timeouts |-> totals.timeouts + Len(timeouts)]
    /\ IF totals'.processed >= total_to_process
       THEN pool_pc' = "complete" /\ UNCHANGED batch_num
       ELSE pool_pc' = "fetch" /\ batch_num' = batch_num + 1
    /\ UNCHANGED <<batch_size, collections, idx, results, timeouts, waited,
                   num_workers, total_collections, total_hits, fetched>>
    /\ UNCHANGED <<unitVars, storeVars>>

\* The loop over the batches ends after the last one.
processing_complete ==
    /\ pool_pc = "fetch"
    /\ batch_num > num_batches
    /\ pool_pc' = "complete"
    /\ UNCHANGED <<batch_size, batch_num, collections, workers, idx, results, timeouts,
                   waited, num_workers, total_collections, total_hits, fetched, totals>>
    /\ UNCHANGED <<unitVars, storeVars>>

NextPool ==
    \/ fetch_batch
    \/ worker_ends
    \/ get_waits
    \/ collect_result
    \/ collect_timeout
    \/ collect_exception
    \/ end_batch
    \/ processing_complete

SpecPool == InitPool /\ [][NextPool]_vars

\* The driver is one sequential thread: each of its steps is taken once it can
\* be, and the clock of a pending get() advances.  Nothing is assumed of the
\* units: worker_ends has no fairness, a unit may block forever.
SpecPoolFair ==
    /\ SpecPool
    /\ WF_vars(fetch_batch)
    /\ WF_vars(get_waits)
    /\ WF_vars(collect_result)
    /\ WF_vars(collect_timeout)
    /\ WF_vars(collect_exception)
    /\ WF_vars(end_batch)
    /\ WF_vars(processing_complete)

(***************************************************************************)
(* Properties of one unit (SpecUnit).                                      *)
(***************************************************************************)
\* The outcomes with which classification ends in failure.
ClassificationFailures ==
    {UNSUPPORTED_FORMAT, CANT_OPEN_FILE, CANT_EXTRACT_VARIABLES, FAILED_TO_EXTRACT,
     NO_GRANULE_FOUND}

InSupportedFormats(f) == \E x \in SUPPORTED_FORMATS : Lower(x) = Lower(f)
InSupportedExtensions(e) == \E x \in SUPPORTED_EXTENSIONS : Lower(x) = Lower(e)

\* The unit is past _validate_format and holds the object it validated.
Validated ==
    /\ pc \in {"validated", "opened", "constructed", "probed", "done"}
    /\ Len(ginfo) = 1
    /\ Len(ginfo[1].granule_metadata) = 1

\* C6: the tile probe starts only from a completed classification that carries no
\* failure outcome and has a tiles URL; an assessment whose outcome is one of the
\* classification failures has no tiles_url and no tile call was made for it.
C6_ProbeOnlyAfterCleanClassification ==
    /\ [](/\ (Len(ginfo) = 1 /\ ginfo[1].incompatible_reason \in ClassificationFailures)
               => (ginfo[1].tiles_url = <<>> /\ calls.tile = 0)
          /\ (ret.kind = "record" /\ ret.record.incompatible_reason \in ClassificationFailures)
               => (ret.record.tiles_url = <<>> /\ calls.tile = 0)
          /\ calls.tile > 0 => pc \in {"probed", "done"})
    /\ [][calls'.tile > calls.tile =>
            /\ pc = "constructed"
            /\ ginfo[1].incompatible_reason = None
            /\ Len(ginfo[1].tiles_url) = 1
            /\ calls'.tile = 1]_vars

\* C6 witness: a unit whose file could not be opened returned its record, and
\* the opener was called but the tile backend was not.
C6_Witness ==
    /\ pc = "done" /\ ret.kind = "record"
    /\ ret.record.incompatible_reason = CANT_OPEN_FILE
    /\ calls.xarray = 1 /\ calls.tile = 0

\* C7 as stated: a granule whose format is not in the supported format set and
\* whose extension is not in the supported extension set (both case-insensitive)
\* ends UNSUPPORTED_FORMAT with no opener and no tile call.
C7_Original ==
    (/\ Validated
     /\ ginfo[1].data_url # None
     /\ (ginfo[1].format = None \/ ~InSupportedFormats(ginfo[1].format))
     /\ ~InSupportedExtensions(ginfo[1].extension))
    => (ginfo[1].incompatible_reason = UNSUPPORTED_FORMAT /\ calls = NoCalls)

\* C7 amended: a granule with a data URL whose declared format, if any, matches
\* neither the supported formats nor the supported extensions, and whose
\* extension is not a supported extension, ends UNSUPPORTED_FORMAT with no
\* tiles_url, no opener call and no tile call, in its record too.
C7_UnsupportedFormatNotOpened ==
    (/\ Validated
     /\ ginfo[1].data_url # None
     /\ \/ ginfo[1].format = None
        \/ ~InSupportedFormats(ginfo[1].format) /\ ~InSupportedExtensions(ginfo[1].format)
     /\ ~InSupportedExtensions(ginfo[1].extension))
    => /\ ginfo[1].incompatible_reason = UNSUPPORTED_FORMAT
       /\ ginfo[1].tiles_url = <<>>
       /\ calls = NoCalls
       /\ pc = "done" => /\ ret.kind = "record"
                         /\ ret.record.incompatible_reason = UNSUPPORTED_FORMAT
                         /\ ~ret.record.tiling_compatible

\* C7 witness: a unit returned UNSUPPORTED_FORMAT for the declared format HDF-EOS2.
C7_Witness ==
    /\ pc = "done" /\ ret.kind = "record"
    /\ ret.record.format = "HDF-EOS2"
    /\ ret.record.incompatible_reason = UNSUPPORTED_FORMAT
    /\ calls = NoCalls

\* C13: test_tiling makes one tile call, for the default tile (z=0, x=0, y=0),
\* and never another; if the call returned the object is a success with no reason
\* and no error message, if it raised the object has TILE_GENERATION_FAILED with
\* the exception's message, and the unit goes on to return its record.
C13_OneTileCallDecidesOutcome ==
    /\ calls.tile <= 1
    /\ calls.tile = 0 => calls.tile_args = <<>>
    /\ calls.tile = 1 =>
          /\ calls.tile_args = <<0, 0, 0>>
          /\ pc \in {"probed", "done"}
          /\ ret.kind # "raise"
          /\ IF calls.tile_error = None
             THEN /\ ginfo[1].tiling_compatible
                  /\ ginfo[1].incompatible_reason = None
                  /\ ginfo[1].error_message = None
             ELSE /\ ~ginfo[1].tiling_compatible
                  /\ ginfo[1].incompatible_reason = TILE_GENERATION_FAILED
                  /\ ginfo[1].error_message = calls.tile_error
          /\ pc = "done" => ret.kind = "record" /\ ret.record = to_report_dict(ginfo[1])

\* C13 witness: the tile call raised and the unit returned the failure with
\* the message; and the call returned and the unit returned a success.
C13_Witness ==
    /\ pc = "done" /\ calls.tile = 1 /\ ret.kind = "record"
    /\ calls.tile_error = "no assets found"
    /\ ret.record.error_message = "no assets found"
    /\ ret.record.incompatible_reason = TILE_GENERATION_FAILED

\* C17 as stated: for a collection that declares COG, with a granule whose URL
\* ends in .tif and for which the raster opener returned Red, Green, Blue (and
\* did not fail), the backend is rasterio, the chosen field is "Red", the tiles URL is built with
\* no datetime whatever the temporal extent, and a probe that returns makes
\* the record a success.
C17_CogScenario ==
    (/\ mode \in {"pool", "lithops"}
     /\ collection.file_format = "COG"
     /\ Len(ginfo) = 1
     /\ ginfo[1].extension = "tif"
     /\ ginfo[1].data_variables = SomeList(<<"Red", "Green", "Blue">>)
     /\ ginfo[1].incompatible_reason # CANT_OPEN_FILE
     /\ pc \in {"constructed", "probed", "done"})
    => /\ calls.rasterio = 1 /\ calls.xarray = 0
       /\ ginfo[1].backend = "rasterio"
       /\ ginfo[1].variable = "Red"
       /\ Len(ginfo[1].tiles_url) = 1
       /\ ginfo[1].tiles_url[1].datetime = <<>>
       /\ (calls.tile = 1 /\ calls.tile_error = None) => ginfo[1].tiling_compatible

\* The classification has passed _extract_data_url for a granule whose links
\* could be read.
UrlResolved ==
    /\ pc \in {"extracted", "validated", "opened", "constructed", "probed", "done"}
    /\ Len(ginfo) = 1
    /\ Len(ginfo[1].granule_metadata) = 1
    /\ ~ginfo[1].granule_metadata[1].links_raise

\* C27 as stated: the data URL is the first link of the requested access mode
\* when that mode has links, and the first link of the other mode when only the
\* other mode has links, whether "direct" or "external" was requested.
C27_FallsBackEitherWay ==
    UrlResolved =>
        LET m == ginfo[1].granule_metadata[1]
            preferred == data_links(m, ginfo[1].access_type)
            other == data_links(m, IF ginfo[1].access_type = "direct"
                                   THEN "external" ELSE "direct")
        IN  /\ Len(preferred) > 0 => ginfo[1].data_url = preferred[1]
            /\ (Len(preferred) = 0 /\ Len(other) > 0) => ginfo[1].data_url = other[1]

\* C28: a granule with no data link in either access mode ends with outcome
\* FAILED_TO_EXTRACT and the message of the missing URL; no later stage changes
\* the outcome, no opener and no tile call is made, no tiles_url is built, and
\* the unit's record carries the outcome.
C28_NoLinkIsTerminal ==
    (/\ UrlResolved
     /\ ginfo[1].granule_metadata[1].direct = <<>>
     /\ ginfo[1].granule_metadata[1].external = <<>>)
    => /\ ginfo[1].incompatible_reason = FAILED_TO_EXTRACT
       /\ ginfo[1].error_message = "Could not find data URL in granule metadata"
       /\ ginfo[1].data_url = None
       /\ ginfo[1].tiles_url = <<>>
       /\ ~ginfo[1].tiling_compatible
       /\ calls = NoCalls
       /\ pc \notin {"validated", "opened"}
       /\ pc = "done" => /\ ret.kind = "record"
                         /\ ret.record.incompatible_reason = FAILED_TO_EXTRACT
                         /\ ret.record.tiles_url = <<>>
                         /\ ~ret.record.tiling_compatible

\* C28 witness: a unit returned its record for a granule without any data link.
C28_Witness ==
    /\ UrlResolved /\ pc = "done" /\ ret.kind = "record"
    /\ ginfo[1].granule_metadata[1].direct = <<>>
    /\ ginfo[1].granule_metadata[1].external = <<>>
    /\ ret.record.incompatible_reason = FAILED_TO_EXTRACT

\* C29: the format of an assessment is the collection's declared format when
\* there is one, else the granule's, else none; with no format and a data URL,
\* the extension is the URL's suffix, the granule is rejected exactly when the
\* extension is not a supported extension, and the opener that is called and the
\* backend are those of the extension.
C29_FormatResolution ==
    (/\ pc \in {"extracted", "validated", "opened", "constructed", "probed", "done"}
     /\ Len(ginfo) = 1
     /\ Len(ginfo[1].granule_metadata) = 1)
    => LET g == ginfo[1]
           ext == g.extension
       IN  /\ g.format = IF collection.file_format # None
                         THEN collection.file_format
                         ELSE g.granule_metadata[1].format
           /\ (g.format = None /\ g.data_url # None) =>
                 /\ ext = LStripDot(Splitext(g.data_url))
                 /\ pc # "extracted" =>
                       (g.incompatible_reason = UNSUPPORTED_FORMAT
                            <=> ~InSupportedExtensions(ext))
                 /\ (InSupportedExtensions(ext) /\ pc \notin {"extracted", "validated"}) =>
                       /\ calls.rasterio = (IF ext \in COG_EXTENSIONS THEN 1 ELSE 0)
                       /\ calls.xarray = (IF ext \in COG_EXTENSIONS THEN 0 ELSE 1)
                       /\ g.backend \in {None, IF ext \in COG_EXTENSIONS
                                               THEN "rasterio" ELSE "xarray"}

\* C29 witness: a unit returned a record with the collection's format for a
\* granule that declares another format.
C29_Witness ==
    /\ pc = "done" /\ ret.kind = "record" /\ Len(ginfo) = 1
    /\ Len(ginfo[1].granule_metadata) = 1
    /\ collection.file_format # None
    /\ ginfo[1].granule_metadata[1].format \notin {None, collection.file_format}
    /\ ret.record.format = collection.file_format

\* C30: for a granule with a data URL and a declared format, the outcome is
\* UNSUPPORTED_FORMAT exactly when the format matches neither the supported
\* formats nor the supported extensions, whatever the extension of the URL is;
\* a rejected granule is not opened and its record carries the outcome.
C30_DeclaredFormatDecides ==
    (/\ Validated
     /\ ginfo[1].data_url # None
     /\ ginfo[1].format # None)
    => /\ ginfo[1].incompatible_reason = UNSUPPORTED_FORMAT
             <=> (/\ ~InSupportedFormats(ginfo[1].format)
                  /\ ~InSupportedExtensions(ginfo[1].format))
       /\ ginfo[1].incompatible_reason = UNSUPPORTED_FORMAT =>
             /\ ginfo[1].error_message = "Format is not supported"
             /\ calls = NoCalls
             /\ pc = "done" => ret.record.incompatible_reason = UNSUPPORTED_FORMAT

\* C30 witness: a unit returned UNSUPPORTED_FORMAT for a declared format although
\* the extension of the data URL is a supported extension.
C30_Witness ==
    /\ pc = "done" /\ ret.kind = "record"
    /\ ret.record.format # None
    /\ InSupportedExtensions(ret.record.extension)
    /\ ret.record.incompatible_reason = UNSUPPORTED_FORMAT

\* C31 as stated: a granule that passed validation is opened with the raster
\* opener exactly when its format (its extension when no format is declared)
\* is COG, cog, tif or tiff in any letter case, and with the array opener
\* otherwise.
C31_BackendAgreesWithValidation ==
    (/\ Validated
     /\ pc \in {"opened", "constructed", "probed", "done"}
     /\ ginfo[1].data_url # None
     /\ ginfo[1].incompatible_reason # UNSUPPORTED_FORMAT)
    => LET file_format == IF ginfo[1].format # None THEN ginfo[1].format
                          ELSE ginfo[1].extension
           raster == Lower(file_format) \in {Lower(f) : f \in COG_FORMATS \cup COG_EXTENSIONS}
       IN  /\ calls.rasterio = (IF raster THEN 1 ELSE 0)
           /\ calls.xarray = (IF raster THEN 0 ELSE 1)
           /\ ginfo[1].backend \in {None, IF raster THEN "rasterio" ELSE "xarray"}

\* C32: for a constructed assessment of the array backend with enumerated
\* fields, the variable is the first field of the allow-list, the first field
\* when none is allow-listed; the reader of the probe gets that variable, a tile
\* request that is built names the same variable, and the classification carries
\* no failure outcome.
C32_VariableChoice ==
    (/\ pc \in {"constructed", "probed", "done"}
     /\ Len(ginfo) = 1
     /\ ginfo[1].backend = "xarray"
     /\ Len(ginfo[1].data_variables) = 1
     /\ Len(ginfo[1].data_variables[1]) > 0)
    => LET g == ginfo[1]
           vs == g.data_variables[1]
           ks == {i \in 1..Len(vs) : vs[i] \in known_variables}
           expected == IF ks = {} THEN vs[1]
                       ELSE vs[CHOOSE i \in ks : \A j \in ks : i <= j]
       IN  /\ g.variable = expected
           /\ g.reader = "XarrayReader"
           /\ g.reader_options = <<[variable |-> expected]>>
           /\ Len(g.tiles_url) = 1 => g.tiles_url[1].variable = expected
           /\ pc = "constructed" => g.incompatible_reason = None
           /\ g.incompatible_reason \in {None, TILE_GENERATION_FAILED}

\* C32 witness: a unit returned its record after a tile call for the first
\* field of a granule none of whose fields is allow-listed.
C32_Witness ==
    /\ pc = "done" /\ ret.kind = "record" /\ Len(ginfo) = 1
    /\ ginfo[1].backend = "xarray"
    /\ ginfo[1].data_variables = <<<<"foo", "bar">>>>
    /\ ginfo[1].variable = "foo"
    /\ Len(ginfo[1].tiles_url) = 1 /\ ginfo[1].tiles_url[1].variable = "foo"
    /\ calls.tile = 1

\* C33 as stated: for the array backend with enumerated fields and a granule
\* whose temporal extent has neither a beginning nor an end, the construction
\* of the assessment completes: the object exists, has no tiles_url and no
\* failure outcome, and no tile call is made for it.
C33_NoTemporalLeavesRequestUnset ==
    [][(/\ pc = "opened" /\ pc' # pc
        /\ Len(ginfo) = 1
        /\ ginfo[1].backend = "xarray"
        /\ TruthyList(ginfo[1].data_variables)
        /\ ginfo[1].temporal_extent = <<<<None, None>>>>)
          => /\ pc' = "constructed"
             /\ Len(ginfo') = 1
             /\ ginfo'[1].tiles_url = <<>>
             /\ ginfo'[1].incompatible_reason = None
             /\ calls' = calls]_vars

\* C34 as stated: the offset of the second request is at least 0 and below
\* min(count, 1000000), so below the collection's granule count.
C34_OffsetBelowCount ==
    offset # -1 => (0 <= offset /\ offset < Min(hits, CMR_PAGINATION_LIMIT))

\* C36: an assessment, and the record a unit returns, has tiling_compatible true
\* only after one tile call that returned, and then has no incompatible_reason
\* and no error_message; the status and reason segments of its result key are
\* then "true" and "none", and a key with another reason has status "false".
C36_CompatibleMeansNoReason ==
    /\ Len(ginfo) = 1 =>
          /\ ginfo[1].tiling_compatible =>
                /\ calls.tile = 1 /\ calls.tile_error = None
                /\ ginfo[1].incompatible_reason = None
                /\ ginfo[1].error_message = None
          /\ tiling_status(ginfo[1]) = "true" => reason_segment(ginfo[1]) = "none"
          /\ reason_segment(ginfo[1]) # "none" => tiling_status(ginfo[1]) = "false"
    /\ (ret.kind = "record" /\ ret.record.tiling_compatible) =>
          /\ calls.tile = 1 /\ calls.tile_error = None
          /\ ret.record.incompatible_reason = None
          /\ ret.record.error_message = None

\* C36 witness: a unit of the store driver returned the record of a compatible
\* collection, whose key has status "true".
C36_Witness ==
    /\ mode = "lithops" /\ pc = "done" /\ ret.kind = "record"
    /\ ret.record.tiling_compatible
    /\ Len(ginfo) = 1 /\ tiling_status(ginfo[1]) = "true"
    /\ calls.tile = 1

has_marker(concept_id) == unprocessed_key(prefix, concept_id) \in DOMAIN s3
result_keys(bucket, concept_id) ==
    {k \in DOMAIN bucket :
        has_prefix(k, prefix \o <<"processed", concept_id>>) /\ ends_with_result(k)}
has_result(concept_id) == result_keys(s3, concept_id) # {}
listed_unprocessed(bucket) == Range(common_prefixes(bucket, prefix \o <<"unprocessed">>))

\* C1 as stated, read between the runs of the drivers (no unit is part-way): a
\* collection that was once given a pending marker has its marker, a result
\* object, or both.
C1_MarkerOrResult ==
    job = "idle" => \A id \in everMarked : has_marker(id) \/ has_result(id)

\* The step in which unit i writes its result.
PutStep(i) ==
    /\ i \in 1..Len(units) /\ Len(units') = Len(units)
    /\ units[i].pc = "put" /\ units'[i].pc = "delete"

\* C2 as stated: when process_collection_to_s3 writes a result for an id that
\* has a result under another status/reason prefix, exactly one result.json is
\* left under processed/<id>/, the one at the new key.
C2_PutReplacesOldResult ==
    [][\A i \in 1..Len(units) :
          (/\ PutStep(i)
           /\ result_keys(s3, units[i].concept_id) \ {result_key(units[i])} # {})
          => result_keys(s3', units[i].concept_id) = {result_key(units[i])}]_vars

\* The step in which unit i returns 'completed'.
CompletedStep(i) ==
    /\ i \in 1..Len(units) /\ Len(units') = Len(units)
    /\ units[i].pc = "delete" /\ units'[i].pc = "done" /\ units'[i].ret = "completed"

C4_SubmitsMarkersWithoutResult ==
    [][(job = "idle" /\ job' = "process") =>
          {units'[i].concept_id : i \in 1..Len(units')} =
             {id \in listed_unprocessed(s3) : ~has_result(id)}]_vars

\* C12 as stated, for the drivers of the store: when a driver returns, no unit
\* has made it raise, and it returns a result for each unit of the batch.
C12_NoUnitAbortsBatch ==
    [][get_result =>
          LET v == get_result_value(units, throw_except(job)) IN
          /\ ~v.raised
          /\ Len(v.results) = Len(units)
          /\ \A i \in 1..Len(units) :
                /\ Len(v.results[i]) = 1
                /\ v.results[i][1].collection_concept_id = units[i].concept_id
                /\ v.results[i][1].status \in {"completed", "failed"}]_vars

\* The ids whose result key in the bucket has the given status and reason
\* (<<>> and None: any).
ids_with_result(bucket, tiling_compatible, incompatibility_reason) ==
    {id \in CollectionIds :
        \E status \in {"true", "false"} :
        \E reason \in IncompatibilityReason \cup {"none"} :
            /\ processed_key(prefix, id, status, reason) \in DOMAIN bucket
            /\ tiling_compatible # <<>> =>
                  status = (IF tiling_compatible = <<TRUE>> THEN "true" ELSE "false")
            /\ incompatibility_reason # None => reason = incompatibility_reason}

\* C14 as stated: for every status and reason, get_collections_by_status returns
\* the concept ids of the results that match, each once.
C14_ListsMatchingIds ==
    \A tiling_compatible \in {<<>>, <<TRUE>>, <<FALSE>>} :
    \A incompatibility_reason \in ReasonArgs :
        LET l == get_collections_by_status(s3, prefix, tiling_compatible,
                                           incompatibility_reason)
        IN  /\ Range(l) = ids_with_result(s3, tiling_compatible, incompatibility_reason)
            /\ \A i, j \in 1..Len(l) : l[i] = l[j] => i = j

\* C19 as stated: when reprocess_and_cleanup ends for a collection that had a
\* result, one result.json is left under processed/<id>/, and if the unit
\* completed it is the one at the new key.
C19_ReprocessLeavesOneResult ==
    [][\A i \in 1..Len(units) :
          (/\ job = "reprocess" /\ Len(units') = Len(units)
           /\ units[i].concept_id \in CollectionIds
           /\ units[i].pc # "done" /\ units'[i].pc = "done")
          => /\ Cardinality(result_keys(s3', units[i].concept_id)) = 1
             /\ units'[i].ret = "completed" =>
                   result_keys(s3', units[i].concept_id) = {result_key(units[i])}]_vars

\* C20: when the result of a unit was written and the delete of the marker
\* fails, the unit ends with 'completed' (it does not fail or raise) for the
\* key it wrote, and the result object is in the store as it was written.
C20_DeleteFailureStillCompleted ==
    [][\A i \in 1..Len(units) :
          (/\ Len(units') = Len(units)
           /\ units[i].pc = "delete" /\ units'[i].pc # "delete"
           /\ units'[i].warned)
          => /\ units'[i].pc = "done" /\ units'[i].ret = "completed"
             /\ units'[i].outcome = units[i].outcome
             /\ result_key(units[i]) \in DOMAIN s3'
             /\ s3'[result_key(units[i])] = s3[result_key(units[i])]
             /\ s3'[result_key(units[i])] =
                   [Body |-> units[i].outcome[1].body,
                    ContentType |-> "application/json", Metadata |-> None]]_vars

\* C20 witness: a unit returned 'completed' after the delete of its marker
\* failed; the marker and the result are both in the store.
C20_Witness ==
    \E i \in 1..Len(units) :
        /\ units[i].pc = "done" /\ units[i].ret = "completed" /\ units[i].warned
        /\ has_marker(units[i].concept_id)
        /\ result_key(units[i]) \in DOMAIN s3

\* C21 as stated: when the write of the result fails, the unit returns 'failed'
\* (it does not raise), the store is as it was (the marker untouched, no
\* result key created), and the id is listed as unprocessed.
C21_FailedWriteKeepsPending ==
    [][\A i \in 1..Len(units) :
          (/\ Len(units') = Len(units)
           /\ units[i].pc = "put" /\ units'[i].pc = "done")
          => /\ units'[i].ret = "failed"
             /\ s3' = s3
             /\ units[i].concept_id \in listed_unprocessed(s3')]_vars

\* C22 as stated: a unit that ends without a failure of the store (it does not
\* end in the write of its result) leaves a result object for its collection.
C22_EveryUnitLeavesResult ==
    [][\A i \in 1..Len(units) :
          (/\ Len(units') = Len(units)
           /\ units[i].pc \notin {"put", "done"} /\ units'[i].pc = "done")
          => result_keys(s3', units[i].concept_id) # {}]_vars

\* C35 as stated: the units of one run of a driver have pairwise different
\* collection ids, so that no two of them work on the keys of one collection.
C35_OneUnitPerCollection ==
    \A i, j \in 1..Len(units) :
        i # j => units[i].concept_id # units[j].concept_id

\* C5: a run of write_collection_id_to_s3 leaves every object of the store as it
\* was, the marker of an id that already had one included, and adds nothing
\* but the marker objects of ids of the catalog, one at each key.
C5_MarkPendingIdempotent ==
    [][write_collection_id_to_s3 =>
          /\ \A k \in DOMAIN s3 : k \in DOMAIN s3' /\ s3'[k] = s3[k]
          /\ \A k \in DOMAIN s3' \ DOMAIN s3 :
                /\ \E id \in CollectionIds : k = unprocessed_key(prefix, id)
                /\ s3'[k] = marker_object
          /\ \A id \in CollectionIds :
                unprocessed_key(prefix, id) \in DOMAIN s3 =>
                    s3'[unprocessed_key(prefix, id)] = marker_object]_vars

\* C5 witness: the marker of an id was written again while it existed, and the
\* store holds the one marker object for it.
C5_Witness ==
    \E id \in rewritten :
        /\ has_marker(id)
        /\ s3[unprocessed_key(prefix, id)] = marker_object
        /\ ~has_result(id)

(***************************************************************************)
(* Properties of the pool (SpecPool).                                      *)
(***************************************************************************)
\* C9: one record is collected for each collection of the batch taken from
\* the pool, in submission order, with the concept id of that collection,
\* whether its worker returned, timed out or raised; when the loop ends there
\* are as many records as collections.
C9_OneRecordPerCollection ==
    /\ pool_pc = "collect" => Len(results) = idx - 1
    /\ pool_pc \in {"fetch", "complete"} => Len(results) = Len(collections)
    /\ Len(results) <= Len(collections)
    /\ \A j \in 1..Len(results) :
          j <= Len(collections) => results[j].collection_concept_id = collections[j]

\* C9 witness: a batch of two or more collections was collected with a timeout
\* and an exception among its records.
C9_Witness ==
    /\ pool_pc = "complete"
    /\ Len(collections) >= 2 /\ Len(results) = Len(collections)
    /\ \E j \in 1..Len(results) : results[j].incompatible_reason = TIMEOUT
    /\ \E j \in 1..Len(results) : results[j].error_message = "error getting result"

\* C11 as stated: a unit that has run past timeout_per_collection has a TIMEOUT
\* record for its own collection id, whatever it returned, once its record is
\* collected.
C11_BlockedUnitYieldsTimeout ==
    pool_pc = "collect" =>
        \A j \in 1..Len(results) :
            workers[j].ran > timeout_per_collection =>
                /\ results[j].incompatible_reason = TIMEOUT
                /\ ~results[j].tiling_compatible
                /\ results[j].collection_concept_id = collections[j]

\* C15: the number of batches is ceil(total_to_process / batch_size), the same
\* number create_collection_directories computes; the pages requested are 1, 2,
\* ... in order, all of them when the run ends, and none (and no unit) when
\* there is nothing to process.
C15_PagesAreCeiling ==
    /\ total_to_process = 0 =>
          num_batches = 0 /\ fetched = <<>> /\ workers = <<>> /\ collections = <<>>
    /\ total_to_process > 0 =>
          /\ (num_batches - 1) * batch_size < total_to_process
          /\ total_to_process <= num_batches * batch_size
    /\ num_pages(total_to_process, batch_size) = num_batches
    /\ Len(fetched) <= num_batches
    /\ \A i \in 1..Len(fetched) : fetched[i] = i
    /\ pool_pc = "complete" => Len(fetched) = num_batches

\* C15 witness: a run ended whose last page is not full.
C15_Witness ==
    /\ pool_pc = "complete"
    /\ total_to_process % batch_size # 0
    /\ Len(fetched) = num_batches /\ Len(fetched) >= 1
    /\ totals.processed > 0

\* C16 as stated: each page fetched has batch_size collections but the last,
\* which has the remainder of total_to_process, so that the collections
\* processed never number more than total_to_process.
C16_PagesSumToTotal ==
    /\ pool_pc = "collect" =>
          Len(collections) =
             Min(batch_size, total_to_process - (batch_num - 1) * batch_size)
    /\ totals.processed <= total_to_process

\* C18: a page is requested from the catalog only when no unit of an earlier
\* page is left (each has returned, raised, or timed out and been stopped) and
\* the record of each has been collected; the units that start are those of
\* the new page.
C18_PageAfterPage ==
    [][fetched' # fetched =>
          /\ workers = <<>>
          /\ Len(results) = Len(collections)
          /\ totals.processed = totals.processed'
          /\ pool_pc' = "collect" =>
                /\ Len(workers') = Len(collections')
                /\ \A j \in 1..Len(workers') :
                      /\ workers'[j].state \in {"queued", "running"}
                      /\ workers'[j].ran = 0]_vars

\* C18 witness: the units of a second page run after a unit of the first page
\* timed out.
C18_Witness ==
    /\ pool_pc = "collect" /\ batch_num >= 2 /\ Len(fetched) >= 2
    /\ totals.timeouts >= 1
    /\ Len(workers) = Len(collections)
    /\ \E j \in 1..Len(workers) : workers[j].state = "running"

\* C23 as stated: a unit has a TIMEOUT record only if it has started running,
\* and a unit that timed out holds no process of the pool, so that no unit of
\* the batch waits for a process behind it.
C23_TimedOutUnitFreesSlot ==
    pool_pc = "collect" =>
        \A j \in 1..Len(results) :
            results[j].incompatible_reason = TIMEOUT =>
                /\ workers[j].state # "queued"
                /\ ~(/\ workers[j].state = "running"
                      /\ \E k \in 1..Len(workers) : workers[k].state = "queued")

\* C24: the results of a batch are collected in the order in which the units
\* complete: the collector never lets time pass waiting for a unit while a
\* unit submitted after it has already ended and is not yet collected.
C24_CollectedInCompletionOrder ==
    [][(pool_pc = "collect" /\ waited' = waited + 1)
          => \A j \in idx..Len(workers) :
                 workers[j].state \notin {"returned", "raised"}]_vars

\* C25: process_collections_parallel terminates whatever the units do: every
\* batch's collection loop ends with the pool terminated, and the run reaches
\* its end.
C25_RunTerminates ==
    /\ <>(pool_pc = "complete")
    /\ [](pool_pc = "collect" => <>(pool_pc # "collect" /\ workers = <<>>))

\* C25 witness: a run of two or more batches ended although every one of its
\* units blocked past the timeout.
C25_Witness ==
    /\ pool_pc = "complete" /\ batch_num >= 2
    /\ totals.processed >= 2 /\ totals.timeouts = totals.processed

\* C26 as stated: when the fetch of a page fails, the loop goes to the next
\* page with no unit started and no record written, and the failure is counted
\* in the totals of the run without counting as a per-collection failure.
C26_FailedPageSkippedAndCounted ==
    [][(/\ fetched' # fetched /\ pool_pc' = "fetch"
        /\ fetch_cmr_collections(total_hits, batch_size, batch_num) # <<>>)
          => /\ batch_num' = batch_num + 1
             /\ workers' = <<>> /\ results' = results
             /\ totals'.processed - totals'.successful - totals'.timeouts
                    = totals.processed - totals.successful - totals.timeouts
             /\ totals' # totals]_vars

\* C10 as stated: every record is a success or carries one failure outcome of the
\* enumeration.
C10_SuccessOrEnumeratedOutcome ==
    \A j \in 1..Len(results) :
        \/ results[j].tiling_compatible /\ results[j].incompatible_reason = None
        \/ ~results[j].tiling_compatible
              /\ results[j].incompatible_reason \in IncompatibilityReason

====
